---- MODULE Spec2Model ----
(***************************************************************************)
(* feed-baby: session store, request-scoped session cache, AuthMiddleware, *)
(* CSRFMiddleware and the identity / feed routes of the FastAPI app.       *)
(*                                                                         *)
(* A request is processed in steps: the middlewares of the stack in their  *)
(* execution order, then the route handler.  Storage (users, sessions,     *)
(* feeds) is shared; every storage access can fail with sqlite3.Error,     *)
(* which is an input of the step that performs it.                         *)
(***************************************************************************)
EXTENDS Integers, Sequences, FiniteSets, TLC

VARIABLES users, sessions, feeds, issued, stack, req, call

vars == <<users, sessions, feeds, issued, stack, req, call>>

----------------------------------------------------------------------------
(* Bounds of the model *)

\* create_session is called at most MaxSessions times in a behaviour
MaxSessions == 2

----------------------------------------------------------------------------
(* Values.  Python strings and None are tagged tuples <<kind, n>>, so that *)
(* a session id, a CSRF token and the text of a tuple are never equal.     *)

None == <<"none", 0>>
EmptyStr == <<"str", 0>>
\* a header value holding a byte >= 0x80 (Starlette decodes headers as latin-1)
NonAsciiStr == <<"nonascii", 0>>
\* the value delete_cookie leaves in the client's cookie jar
DeletedCookie == <<"deleted", 0>>

\* Python truthiness of an optional string: None and "" are falsy
Truthy(v) == v # None /\ v # EmptyStr

IsAscii(v) == v # NonAsciiStr

\* str(uuid.uuid4()): the n-th generated id; ids never repeat
uuid4(n) == <<"uuid", n>>

\* secrets.token_urlsafe(32): the n-th generated token
token_urlsafe(n) == <<"tok", n>>

\* str(value) as SimpleCookie.value_encode applies it to a cookie value:
\* the identity on a str, the text "('<id>', '<token>')" on a tuple
CookieStr(v) == IF v[1] = "tuple" THEN <<"repr", v[2], v[3]>> ELSE v

Slots == {1}

Usernames == {"alice", "bob"}
Passwords == {"pw1", "pw2"}
\* the passwords users register with; logins try every password
RegisterPasswords == {"pw1"}

CSRF_PROTECTED_METHODS == {"POST", "PUT", "PATCH", "DELETE"}
\* variant: only GET is taken to be safe
CSRF_SAFE_METHODS_GetOnly == {"GET"}

CSRF_SAFE_METHODS == {"GET", "HEAD", "OPTIONS", "TRACE"}

\* the routes registered by bootstrap_server that the model covers
Routes == {<<"GET", "/feeds/new">>, <<"POST", "/feeds">>,
           <<"DELETE", "/feeds/{feed_id}">>, <<"POST", "/register">>,
           <<"POST", "/login">>, <<"POST", "/logout">>}

\* requests the router answers itself: the path exists, the method does not
Unrouted == {<<"HEAD", "/feeds/new">>, <<"OPTIONS", "/feeds/new">>,
             <<"TRACE", "/feeds/new">>, <<"PUT", "/feeds">>,
             <<"PATCH", "/feeds">>, <<"CONNECT", "/feeds">>}

Endpoints == Routes \cup Unrouted

\* execution orders of the middleware stack (outermost first)
Stacks == {<<"auth", "csrf">>, <<"csrf", "auth">>}

----------------------------------------------------------------------------
(* Password hashing (user.py).  The str values of this section are the     *)
(* sequences of their pieces: a piece is the separator '$', an algorithm   *)
(* prefix, or a run of characters of one kind.                             *)

Sep == <<"$", 0>>

\* the text "pbkdf2:sha256:<iterations>"
AlgorithmInfo(iterations) == <<"pbkdf2:sha256", iterations>>

\* secrets.token_hex(32): the n-th generated salt, hex digits
token_hex(n) == << <<"hex", n>> >>

\* ASCII characters that are no output of hex()
AsciiChars == <<"ascii", 0>>

\* a lone surrogate: a character str.encode() rejects
Surrogate == <<"surrogate", 0>>

\* str.encode() raises UnicodeEncodeError, a ValueError
encode_raises(s) == \E i \in 1..Len(s) : s[i] = Surrogate

IsAsciiText(s) == \A i \in 1..Len(s) : s[i] \notin {NonAsciiStr, Surrogate}

\* hashlib.pbkdf2_hmac("sha256", password, salt, iterations), collision free
pbkdf2_hmac(password, salt, iterations) == <<"dk", password, salt, iterations>>

\* (hashed.hex(), salt), for a salt that encodes
hash_password(password, salt) ==
    << <<pbkdf2_hmac(password, salt, 600000)>>, salt >>

\* the stored string f"pbkdf2:sha256:600000${salt}${hashed}"
StoredHash(password, salt) ==
    <<AlgorithmInfo(600000), Sep>> \o salt \o <<Sep>>
        \o hash_password(password, salt)[1]

\* s.split("$")
RECURSIVE split(_)
split(s) ==
    IF \A i \in 1..Len(s) : s[i] # Sep THEN <<s>>
    ELSE LET i == CHOOSE i \in 1..Len(s) :
                      s[i] = Sep /\ \A j \in 1..(i - 1) : s[j] # Sep
         IN  <<SubSeq(s, 1, i - 1)>> \o split(SubSeq(s, i + 1, Len(s)))

\* verify_password raises: the TypeError of secrets.compare_digest on a
\* non-ASCII expected_hash, which except (ValueError, AttributeError) lets by
verify_password_raises(password, stored_hash) ==
    LET parts == split(stored_hash) IN
    /\ Len(parts) = 3
    /\ parts[1] = <<AlgorithmInfo(600000)>>
    /\ ~encode_raises(parts[2])
    /\ ~IsAsciiText(parts[3])

\* variant: the prefix may state any iteration count, and the hash is
\* recomputed with the count it states
verify_password_ParsesIterations(password, stored_hash) ==
    LET parts == split(stored_hash) IN
    IF Len(parts) # 3 THEN FALSE
    ELSE IF Len(parts[1]) # 1 \/ parts[1][1][1] # "pbkdf2:sha256" THEN FALSE
    ELSE IF encode_raises(parts[2]) THEN FALSE
    ELSE <<pbkdf2_hmac(password, parts[2], parts[1][1][2])>> = parts[3]

\* the value verify_password returns when it does not raise
verify_password(password, stored_hash) ==
    LET parts == split(stored_hash) IN
    IF Len(parts) # 3 THEN FALSE
    ELSE IF parts[1] # <<AlgorithmInfo(600000)>> THEN FALSE
    ELSE IF encode_raises(parts[2]) THEN FALSE
    ELSE hash_password(password, parts[2])[1] = parts[3]

----------------------------------------------------------------------------
(* User store (user.py).  users is the table in rowid order: id = index.   *)

UserObj(id) == <<"user", id>>

UsernameTaken(username, usrs) ==
    \E k \in 1..Len(usrs) : usrs[k].username = username

UserRow(username, password, salt) ==
    [username |-> username, password_hash |-> StoredHash(password, salt)]

\* the UNIQUE constraint on users.username (schema of the migrations): the
\* INSERT of a username that is stored raises sqlite3.IntegrityError
UniqueViolation(username, usrs) ==
    \E k \in 1..Len(usrs) : usrs[k].username = username

\* variant: INSERT OR REPLACE, a stored username takes the new password
User_create_Replaces(username, password, usrs, fail) ==
    IF fail THEN [ret |-> <<"raise", "sqlite3.Error">>, users |-> usrs]
    ELSE IF UniqueViolation(username, usrs)
    THEN LET k == CHOOSE k \in 1..Len(usrs) : usrs[k].username = username
         IN  [ret |-> UserObj(k),
              users |-> [usrs EXCEPT
                           ![k] = UserRow(username, password, token_hex(Len(usrs) + 1))]]
    ELSE [ret |-> UserObj(Len(usrs) + 1),
          users |-> Append(usrs, UserRow(username, password, token_hex(Len(usrs) + 1)))]

\* variant: the IntegrityError of the INSERT is not caught
User_create_Unhandled(username, password, usrs, fail) ==
    IF fail THEN [ret |-> <<"raise", "sqlite3.Error">>, users |-> usrs]
    ELSE IF UniqueViolation(username, usrs)
    THEN [ret |-> <<"raise", "sqlite3.IntegrityError">>, users |-> usrs]
    ELSE [ret |-> UserObj(Len(usrs) + 1),
          users |-> Append(usrs, UserRow(username, password, token_hex(Len(usrs) + 1)))]

\* User.create: ret is the created User (id = lastrowid), None for a
\* duplicate username, or the sqlite3.Error of a storage failure, which
\* nothing catches; the salt is fresh for every call
User_create(username, password, usrs, fail) ==
    IF fail THEN [ret |-> <<"raise", "sqlite3.Error">>, users |-> usrs]
    ELSE IF UniqueViolation(username, usrs)
    THEN [ret |-> None, users |-> usrs]
    ELSE [ret |-> UserObj(Len(usrs) + 1),
          users |-> Append(usrs, UserRow(username, password, token_hex(Len(usrs) + 1)))]

\* User.get_by_id without a storage failure: the User or None
get_by_id(user_id, usrs) ==
    IF user_id \in 1..Len(usrs) THEN UserObj(user_id) ELSE None

\* variant: the password is not checked
authenticate_AnyPassword(username, password, usrs) ==
    IF ~UsernameTaken(username, usrs) THEN None
    ELSE LET k == CHOOSE k \in 1..Len(usrs) : usrs[k].username = username
         IN  UserObj(k)

\* User.authenticate without a storage failure: the User, None, or the
\* exception verify_password raised
authenticate(username, password, usrs) ==
    IF ~UsernameTaken(username, usrs) THEN None
    ELSE LET k == CHOOSE k \in 1..Len(usrs) : usrs[k].username = username
         IN  IF verify_password_raises(password, usrs[k].password_hash)
             THEN <<"raise", "TypeError">>
             ELSE IF verify_password(password, usrs[k].password_hash)
             THEN UserObj(k) ELSE None

----------------------------------------------------------------------------
(* Session store (auth.py) *)

SessionRow(session_id, user_id, csrf_token) ==
    [id |-> session_id, user_id |-> user_id, csrf_token |-> csrf_token]

\* SELECT user_id, csrf_token FROM sessions WHERE id = ? ; fetchone()
FetchSessionRow(session_id, sess) ==
    IF \E s \in sess : s.id = session_id
    THEN LET s == CHOOSE s \in sess : s.id = session_id
         IN  <<"row", s.user_id, s.csrf_token>>
    ELSE None

\* get_session: a storage error is answered like a missing row
get_session(session_id, sess, fail) ==
    IF fail THEN None ELSE FetchSessionRow(session_id, sess)

\* variant: a user's earlier sessions are replaced by the new one
create_session_OnePerUser(user_id, n, sess, fail) ==
    IF fail
    THEN [ret |-> <<"raise", "SessionCreationError">>, sessions |-> sess]
    ELSE [ret |-> <<"tuple", uuid4(n + 1), token_urlsafe(n + 1)>>,
          sessions |-> {s \in sess : s.user_id # user_id} \cup
              {SessionRow(uuid4(n + 1), user_id, token_urlsafe(n + 1))}]

\* variant: the sqlite3.Error of the INSERT is swallowed
create_session_Swallows(user_id, n, sess, fail) ==
    IF fail
    THEN [ret |-> <<"tuple", uuid4(n + 1), token_urlsafe(n + 1)>>,
          sessions |-> sess]
    ELSE [ret |-> <<"tuple", uuid4(n + 1), token_urlsafe(n + 1)>>,
          sessions |-> sess \cup
              {SessionRow(uuid4(n + 1), user_id, token_urlsafe(n + 1))}]

\* variant: the user's other sessions take over the new csrf_token
create_session_Rotates(user_id, n, sess, fail) ==
    IF fail
    THEN [ret |-> <<"raise", "SessionCreationError">>, sessions |-> sess]
    ELSE [ret |-> <<"tuple", uuid4(n + 1), token_urlsafe(n + 1)>>,
          sessions |->
              {IF s.user_id = user_id
               THEN [s EXCEPT !.csrf_token = token_urlsafe(n + 1)] ELSE s :
                   s \in sess}
              \cup {SessionRow(uuid4(n + 1), user_id, token_urlsafe(n + 1))}]

\* create_session, n being the number of ids generated before it: ret is
\* the returned tuple, or the exception raised in place of it; the INSERT
\* runs in a transaction, so a failed write stores nothing
create_session(user_id, n, sess, fail) ==
    IF fail
    THEN [ret |-> <<"raise", "SessionCreationError">>, sessions |-> sess]
    ELSE [ret |-> <<"tuple", uuid4(n + 1), token_urlsafe(n + 1)>>,
          sessions |-> sess \cup
              {SessionRow(uuid4(n + 1), user_id, token_urlsafe(n + 1))}]

\* variant: DELETE FROM sessions without the WHERE clause
delete_session_All(session_id, sess, fail) ==
    IF fail THEN sess ELSE {}

\* variant: every session of the user of session_id is deleted
delete_session_ByUser(session_id, sess, fail) ==
    IF fail THEN sess
    ELSE {s \in sess : \A t \in sess : t.id = session_id => s.user_id # t.user_id}

\* the sessions table after delete_session: errors are swallowed
delete_session(session_id, sess, fail) ==
    IF fail THEN sess ELSE {s \in sess : s.id # session_id}

----------------------------------------------------------------------------
(* A request and its request.state (Starlette) *)

IdleReq ==
    [pc |-> "idle", i |-> 0,
     method |-> "", path |-> "", cookie |-> None, header |-> None,
     username |-> "", password |-> "", feed_id |-> 0,
     ounces |-> 0,                             \* the ounces form field, in hundredths
     next |-> None,                            \* the next field of the login form
     created |-> None,                         \* the User that User.create returned
     has_cache |-> FALSE, cache |-> None,      \* request.state._session_cache
     user |-> None, csrf_token |-> None,       \* request.state.user / csrf_token
     status |-> 0, detail |-> "", location |-> "", set_cookie |-> None,
     raised |-> "",
     queries |-> 0,      \* SELECTs on the sessions table made by this request
     auth_next |-> 0,    \* call_next invocations made by AuthMiddleware
     csrf_next |-> 0,    \* call_next invocations made by CSRFMiddleware
     ran |-> 0]          \* route handler invocations

NewReq(ep, cookie, header, username, password, feed_id) ==
    [IdleReq EXCEPT !.pc = "mw", !.i = 1, !.method = ep[1], !.path = ep[2],
                    !.cookie = cookie, !.header = header,
                    !.username = username, !.password = password,
                    !.feed_id = feed_id]

\* await call_next(request): the next middleware of the stack, or the router
CallNext(q, stk) ==
    IF q.i + 1 > Len(stk)
    THEN [q EXCEPT !.i = @ + 1, !.pc = "route"]
    ELSE [q EXCEPT !.i = @ + 1]

Respond(q, status, detail, location, set_cookie) ==
    [q EXCEPT !.pc = "done", !.status = status, !.detail = detail,
              !.location = location, !.set_cookie = set_cookie]

JSONResponse(q, status, detail) == Respond(q, status, detail, "", None)

\* an exception nobody catches: ServerErrorMiddleware answers 500
Unhandled(q, exc) ==
    [Respond(q, 500, "Internal Server Error", "", None) EXCEPT !.raised = exc]

----------------------------------------------------------------------------
(* Session cache (session_cache.py) *)

\* variant: no result is stored; every caller queries the session table
get_or_fetch_session_NoCache(q, sess, fail) ==
    IF Truthy(q.cookie)
    THEN [q EXCEPT !.has_cache = TRUE,
                   !.cache = IF fail THEN None
                             ELSE FetchSessionRow(q.cookie, sess),
                   !.queries = @ + 1]
    ELSE [q EXCEPT !.has_cache = TRUE, !.cache = None]

\* variant: a None result is looked up again by the next caller
get_or_fetch_session_RefetchesNone(q, sess, fail) ==
    IF ~q.has_cache \/ q.cache = None
    THEN IF Truthy(q.cookie)
         THEN [q EXCEPT !.has_cache = TRUE,
                        !.cache = IF fail THEN None
                                  ELSE FetchSessionRow(q.cookie, sess),
                        !.queries = @ + 1]
         ELSE [q EXCEPT !.has_cache = TRUE, !.cache = None]
    ELSE q

get_or_fetch_session(q, sess, fail) ==
    IF ~q.has_cache
    THEN IF Truthy(q.cookie)
         THEN [q EXCEPT !.has_cache = TRUE,
                        !.cache = IF fail THEN None
                                  ELSE FetchSessionRow(q.cookie, sess),
                        !.queries = @ + 1]
         ELSE [q EXCEPT !.has_cache = TRUE, !.cache = None]
    ELSE q

----------------------------------------------------------------------------
(* Middlewares (csrf.py, auth.py) *)

\* secrets.compare_digest on two str: TypeError unless both are ASCII
compare_digest_raises(a, b) == ~IsAscii(a) \/ ~IsAscii(b)

\* variant: the result of the comparison is inverted
compare_digest_Inverted(a, b) == a # b

compare_digest(a, b) == a = b

\* variant: a missing token is let through
CSRFMiddleware_dispatch_SkipsMissing(q, stk, sess, fail) ==
    IF q.method \in CSRF_SAFE_METHODS
    THEN CallNext([q EXCEPT !.csrf_next = @ + 1], stk)
    ELSE LET q1 == get_or_fetch_session(q, sess, fail) IN
         IF q1.cache = None
         THEN CallNext([q1 EXCEPT !.csrf_next = @ + 1], stk)
         ELSE LET csrf_token == q1.cache[3]
                  client_token == q1.header
              IN  IF ~Truthy(client_token)
                  THEN CallNext([q1 EXCEPT !.csrf_next = @ + 1], stk)
                  ELSE IF compare_digest_raises(csrf_token, client_token)
                  THEN Unhandled(q1, "TypeError")
                  ELSE IF ~compare_digest(csrf_token, client_token)
                  THEN JSONResponse(q1, 403, "CSRF token invalid")
                  ELSE CallNext([q1 EXCEPT !.csrf_next = @ + 1], stk)

\* variant: the token is required before the session is looked up
CSRFMiddleware_dispatch_TokenFirst(q, stk, sess, fail) ==
    IF q.method \in CSRF_SAFE_METHODS
    THEN CallNext([q EXCEPT !.csrf_next = @ + 1], stk)
    ELSE IF ~Truthy(q.header)
    THEN JSONResponse(q, 403, "CSRF token missing")
    ELSE LET q1 == get_or_fetch_session(q, sess, fail) IN
         IF q1.cache = None
         THEN CallNext([q1 EXCEPT !.csrf_next = @ + 1], stk)
         ELSE LET csrf_token == q1.cache[3]
                  client_token == q1.header
              IN  IF compare_digest_raises(csrf_token, client_token)
                  THEN Unhandled(q1, "TypeError")
                  ELSE IF ~compare_digest(csrf_token, client_token)
                  THEN JSONResponse(q1, 403, "CSRF token invalid")
                  ELSE CallNext([q1 EXCEPT !.csrf_next = @ + 1], stk)

\* variant: the token is read from request.state.csrf_token, which only
\* AuthMiddleware sets, instead of the session cache
CSRFMiddleware_dispatch_ReadsState(q, stk, sess, fail) ==
    IF q.method \in CSRF_SAFE_METHODS
    THEN CallNext([q EXCEPT !.csrf_next = @ + 1], stk)
    ELSE IF q.csrf_token = None
         THEN CallNext([q EXCEPT !.csrf_next = @ + 1], stk)
         ELSE LET csrf_token == q.csrf_token
                  client_token == q.header
              IN  IF ~Truthy(client_token)
                  THEN JSONResponse(q, 403, "CSRF token missing")
                  ELSE IF compare_digest_raises(csrf_token, client_token)
                  THEN Unhandled(q, "TypeError")
                  ELSE IF ~compare_digest(csrf_token, client_token)
                  THEN JSONResponse(q, 403, "CSRF token invalid")
                  ELSE CallNext([q EXCEPT !.csrf_next = @ + 1], stk)

CSRFMiddleware_dispatch(q, stk, sess, fail) ==
    IF q.method \in CSRF_SAFE_METHODS
    THEN CallNext([q EXCEPT !.csrf_next = @ + 1], stk)
    ELSE LET q1 == get_or_fetch_session(q, sess, fail) IN
         IF q1.cache = None
         THEN CallNext([q1 EXCEPT !.csrf_next = @ + 1], stk)
         ELSE LET csrf_token == q1.cache[3]
                  client_token == q1.header
              IN  IF ~Truthy(client_token)
                  THEN JSONResponse(q1, 403, "CSRF token missing")
                  ELSE IF compare_digest_raises(csrf_token, client_token)
                  THEN Unhandled(q1, "TypeError")
                  ELSE IF ~compare_digest(csrf_token, client_token)
                  THEN JSONResponse(q1, 403, "CSRF token invalid")
                  ELSE CallNext([q1 EXCEPT !.csrf_next = @ + 1], stk)

\* variant: request.state.csrf_token is not assigned from the session
AuthMiddleware_dispatch_NoToken(q, stk, sess, usrs, fail_s, fail_u) ==
    LET q0 == [q EXCEPT !.user = None, !.csrf_token = None]
        q1 == get_or_fetch_session(q0, sess, fail_s)
    IN  IF q1.cache # None
        THEN IF fail_u THEN Unhandled(q1, "sqlite3.Error")
             ELSE CallNext([q1 EXCEPT !.user = get_by_id(q1.cache[2], usrs),
                                      !.auth_next = @ + 1], stk)
        ELSE CallNext([q1 EXCEPT !.auth_next = @ + 1], stk)

\* fail_s: the session SELECT fails; fail_u: User.get_by_id fails
AuthMiddleware_dispatch(q, stk, sess, usrs, fail_s, fail_u) ==
    LET q0 == [q EXCEPT !.user = None, !.csrf_token = None]
        q1 == get_or_fetch_session(q0, sess, fail_s)
    IN  IF q1.cache # None
        THEN IF fail_u THEN Unhandled(q1, "sqlite3.Error")
             ELSE CallNext([q1 EXCEPT !.user = get_by_id(q1.cache[2], usrs),
                                      !.csrf_token = q1.cache[3],
                                      !.auth_next = @ + 1], stk)
        ELSE CallNext([q1 EXCEPT !.auth_next = @ + 1], stk)

Dispatch(name, q, stk, sess, usrs, fail_s, fail_u) ==
    IF name = "csrf" THEN CSRFMiddleware_dispatch(q, stk, sess, fail_s)
    ELSE AuthMiddleware_dispatch(q, stk, sess, usrs, fail_s, fail_u)

----------------------------------------------------------------------------
\* no function call under test
NoCall == [pc |-> "none"]

(* Initial state: migrated database with one feed row, no user and no     *)
(* session; the middlewares registered in one of the two orders; no       *)
(* request in flight.                                                      *)

\* a row of the feeds table: id and volume in microliters
FeedRow(id, volume_ul) == [id |-> id, volume_ul |-> volume_ul]

\* the feed_id path parameter: the id of the stored feed row, or another
FeedIds == {1, 2}

Init ==
    /\ users = <<>>
    /\ sessions = {}
    /\ feeds = {FeedRow(1, 88721)}
    /\ issued = <<>>
    /\ stack \in Stacks
    /\ req = [r \in Slots |-> IdleReq]
    /\ call = NoCall

----------------------------------------------------------------------------
(* Inputs of a request *)

\* no cookie, an empty one, a session id, or the cookie text the identity
\* routes hand out for the k-th session
CookieInputs ==
    {None, EmptyStr} \cup {uuid4(k) : k \in 1..MaxSessions}
        \cup {CookieStr(<<"tuple", uuid4(k), token_urlsafe(k)>>) :
                 k \in 1..MaxSessions}

HeaderInputs ==
    {None, EmptyStr, NonAsciiStr} \cup {token_urlsafe(k) : k \in 1..MaxSessions}

IsIdentityForm(ep) == ep \in {<<"POST", "/register">>, <<"POST", "/login">>}

\* a request arrives
Receive(r) ==
    /\ req[r].pc = "idle"
    /\ \E ep \in Endpoints, cookie \in CookieInputs, header \in HeaderInputs :
         \/ /\ IsIdentityForm(ep)
            /\ Len(issued) < MaxSessions
            /\ \E username \in Usernames,
                  password \in (IF ep = <<"POST", "/register">>
                                THEN RegisterPasswords ELSE Passwords) :
                 req' = [req EXCEPT ![r] =
                           NewReq(ep, cookie, header, username, password, 0)]
         \/ /\ ep = <<"DELETE", "/feeds/{feed_id}">>
            /\ \E feed_id \in FeedIds :
                 req' = [req EXCEPT ![r] =
                           NewReq(ep, cookie, header, "", "", feed_id)]
         \/ /\ ~IsIdentityForm(ep)
            /\ ep # <<"DELETE", "/feeds/{feed_id}">>
            /\ req' = [req EXCEPT ![r] = NewReq(ep, cookie, header, "", "", 0)]
    /\ UNCHANGED <<users, sessions, feeds, issued, stack, call>>

----------------------------------------------------------------------------
(* Middleware steps *)

AuthStep(r) ==
    /\ req[r].pc = "mw"
    /\ stack[req[r].i] = "auth"
    /\ \E fail_s \in BOOLEAN, fail_u \in BOOLEAN :
         req' = [req EXCEPT ![r] =
                   Dispatch("auth", req[r], stack, sessions, users,
                            fail_s, fail_u)]
    /\ UNCHANGED <<users, sessions, feeds, issued, stack, call>>

CSRFStep(r) ==
    /\ req[r].pc = "mw"
    /\ stack[req[r].i] = "csrf"
    /\ \E fail_s \in BOOLEAN :
         req' = [req EXCEPT ![r] =
                   Dispatch("csrf", req[r], stack, sessions, users,
                            fail_s, FALSE)]
    /\ UNCHANGED <<users, sessions, feeds, issued, stack, call>>

----------------------------------------------------------------------------
(* Routes (app.py) *)

AtRoute(r, method, path) ==
    /\ req[r].pc = "route"
    /\ req[r].method = method
    /\ req[r].path = path

Handled(q) == [q EXCEPT !.ran = @ + 1]

RedirectResponse(q, url) == Respond(q, 303, "", url, None)

TemplateResponse(q, status, error) == Respond(q, status, error, "", None)

\* the router finds the path but no route for the method
MethodNotAllowed(r) ==
    /\ req[r].pc = "route"
    /\ <<req[r].method, req[r].path>> \notin Routes
    /\ req' = [req EXCEPT ![r] =
                 Respond(req[r], 405, "Method Not Allowed", "", None)]
    /\ UNCHANGED <<users, sessions, feeds, issued, stack, call>>

new_feed(r) ==
    /\ AtRoute(r, "GET", "/feeds/new")
    /\ LET q == Handled(req[r]) IN
       req' = [req EXCEPT ![r] =
                 IF q.user = None
                 THEN RedirectResponse(q, "/login?next=feeds_new")
                 ELSE TemplateResponse(q, 200, "")]
    /\ UNCHANGED <<users, sessions, feeds, issued, stack, call>>

\* the ounces parameter is Annotated[Decimal, Form()], without a range; the
\* handler calls Feed.from_form with a user_id keyword that from_form does
\* not take: the call raises TypeError
create_feed(r) ==
    /\ AtRoute(r, "POST", "/feeds")
    /\ LET q == Handled(req[r]) IN
       req' = [req EXCEPT ![r] =
                 IF q.user = None
                 THEN RedirectResponse(q, "/login?next=feeds_new")
                 ELSE Unhandled(q, "TypeError")]
    /\ UNCHANGED <<users, sessions, feeds, issued, stack, call>>

\* f"Feed with ID {feed_id} not found"
NotFoundError(feed_id) == "Feed with ID " \o ToString(feed_id) \o " not found"

\* variant: the DELETE is reported as done whatever its rowcount
Feed_delete_AlwaysTrue(feed_id, fds, fail) ==
    IF fail THEN [raised |-> "sqlite3.Error", deleted |-> FALSE, feeds |-> fds]
    ELSE [raised |-> "", deleted |-> TRUE,
          feeds |-> {f \in fds : f.id # feed_id}]

\* Feed.delete (feed.py): DELETE FROM feeds WHERE id = ?, deleted is
\* rowcount > 0; a storage failure is raised to the caller
Feed_delete(feed_id, fds, fail) ==
    IF fail THEN [raised |-> "sqlite3.Error", deleted |-> FALSE, feeds |-> fds]
    ELSE [raised |-> "", deleted |-> \E f \in fds : f.id = feed_id,
          feeds |-> {f \in fds : f.id # feed_id}]

\* variant: the feed is deleted before the user is looked at
delete_feed_DeletesFirst(r) ==
    /\ AtRoute(r, "DELETE", "/feeds/{feed_id}")
    /\ LET q == Handled(req[r]) IN
       \E fail \in BOOLEAN :
         LET d == Feed_delete(q.feed_id, feeds, fail) IN
         IF d.raised # ""
         THEN /\ req' = [req EXCEPT ![r] = Unhandled(q, d.raised)]
              /\ feeds' = feeds
         ELSE IF q.user = None
         THEN /\ req' = [req EXCEPT ![r] =
                           RedirectResponse(q, "/login?next=feeds_list")]
              /\ feeds' = d.feeds
         ELSE IF ~d.deleted
         THEN /\ req' = [req EXCEPT ![r] =
                           TemplateResponse(q, 200, NotFoundError(q.feed_id))]
              /\ feeds' = d.feeds
         ELSE /\ req' = [req EXCEPT ![r] = RedirectResponse(q, "/feeds")]
              /\ feeds' = d.feeds
    /\ UNCHANGED <<users, sessions, issued, stack, call>>

delete_feed(r) ==
    /\ AtRoute(r, "DELETE", "/feeds/{feed_id}")
    /\ LET q == Handled(req[r]) IN
       \E fail \in BOOLEAN :
         IF q.user = None
         THEN /\ req' = [req EXCEPT ![r] =
                           RedirectResponse(q, "/login?next=feeds_list")]
              /\ feeds' = feeds
         ELSE LET d == Feed_delete(q.feed_id, feeds, fail) IN
              IF d.raised # ""
              THEN /\ req' = [req EXCEPT ![r] = Unhandled(q, d.raised)]
                   /\ feeds' = feeds
              ELSE IF ~d.deleted
              THEN /\ req' = [req EXCEPT ![r] =
                         TemplateResponse(q, 200, NotFoundError(q.feed_id))]
                   /\ feeds' = d.feeds
              ELSE /\ req' = [req EXCEPT ![r] = RedirectResponse(q, "/feeds")]
                   /\ feeds' = d.feeds
    /\ UNCHANGED <<users, sessions, issued, stack, call>>

----------------------------------------------------------------------------
(* Identity routes (app.py) *)

\* the session-creating tail of post_register and post_login: the 500 page
\* when create_session raises, else the redirect that sets the cookie to the
\* VALUE create_session returned
LoginTail(r, q, user_id, url, fail) ==
    LET c == create_session(user_id, Len(issued), sessions, fail) IN
    IF c.ret[1] = "raise"
    THEN /\ req' = [req EXCEPT ![r] =
                 [TemplateResponse(q, 500,
                      "Failed to create session. Please try again.")
                  EXCEPT !.raised = c.ret[2]]]
         /\ UNCHANGED <<sessions, issued>>
    ELSE /\ req' = [req EXCEPT ![r] = Respond(q, 303, "", url, CookieStr(c.ret))]
         /\ sessions' = c.sessions
         /\ issued' = Append(issued, SessionRow(c.ret[2], user_id, c.ret[3]))

\* variant: the user row is written only when the session could be created
post_register_RollsBack(r) ==
    /\ AtRoute(r, "POST", "/register")
    /\ LET q == Handled(req[r]) IN
       \E fail_c \in BOOLEAN, fail \in BOOLEAN :
         LET u == User_create(q.username, q.password, users, fail_c) IN
         IF u.ret[1] = "raise"
         THEN /\ req' = [req EXCEPT ![r] = Unhandled(q, u.ret[2])]
              /\ UNCHANGED <<users, sessions, issued>>
         ELSE IF u.ret = None
         THEN /\ req' = [req EXCEPT ![r] =
                           TemplateResponse(q, 200, "Username already exists")]
              /\ UNCHANGED <<users, sessions, issued>>
         ELSE /\ users' = IF fail THEN users ELSE u.users
              /\ LoginTail(r, q, u.ret[2], "/", fail)
    /\ UNCHANGED <<feeds, stack, call>>

post_register(r) ==
    /\ AtRoute(r, "POST", "/register")
    /\ LET q == Handled(req[r]) IN
       \E fail_c \in BOOLEAN, fail \in BOOLEAN :
         LET u == User_create(q.username, q.password, users, fail_c) IN
         IF u.ret[1] = "raise"
         THEN /\ req' = [req EXCEPT ![r] = Unhandled(q, u.ret[2])]
              /\ UNCHANGED <<users, sessions, issued>>
         ELSE IF u.ret = None
         THEN /\ req' = [req EXCEPT ![r] =
                           TemplateResponse(q, 200, "Username already exists")]
              /\ UNCHANGED <<users, sessions, issued>>
         ELSE /\ users' = u.users
              /\ LoginTail(r, q, u.ret[2], "/", fail)
    /\ UNCHANGED <<feeds, stack, call>>

\* REDIRECT_TARGETS: token of the next field -> path
REDIRECT_TARGETS ==
    [feeds_new |-> "/feeds/new", feeds_list |-> "/feeds", home |-> "/"]

\* a value of the next form field that is present
FormText(text) == <<"form", text>>

\* variant: a next value that is no token is taken as the path itself
RedirectTarget_RawNext(next) ==
    LET key == IF next = None THEN "" ELSE next[2] IN
    IF key \in DOMAIN REDIRECT_TARGETS THEN REDIRECT_TARGETS[key]
    ELSE IF key = "" THEN "/" ELSE key

\* REDIRECT_TARGETS.get(next or "", "/")
RedirectTarget(next) ==
    LET key == IF next = None THEN "" ELSE next[2] IN
    IF key \in DOMAIN REDIRECT_TARGETS THEN REDIRECT_TARGETS[key] ELSE "/"

post_login(r) ==
    /\ AtRoute(r, "POST", "/login")
    /\ LET q == Handled(req[r]) IN
       \E fail_a \in BOOLEAN, fail \in BOOLEAN :
         IF fail_a
         THEN /\ req' = [req EXCEPT ![r] = Unhandled(q, "sqlite3.Error")]
              /\ UNCHANGED <<sessions, issued>>
         ELSE LET user == authenticate(q.username, q.password, users) IN
              IF user[1] = "raise"
              THEN /\ req' = [req EXCEPT ![r] = Unhandled(q, user[2])]
                   /\ UNCHANGED <<sessions, issued>>
              ELSE IF user = None
              THEN /\ req' = [req EXCEPT ![r] =
                         TemplateResponse(q, 200, "Invalid username or password")]
                   /\ UNCHANGED <<sessions, issued>>
              ELSE LoginTail(r, q, user[2], RedirectTarget(q.next), fail)
    /\ UNCHANGED <<users, feeds, stack, call>>

post_logout(r) ==
    /\ AtRoute(r, "POST", "/logout")
    /\ LET q == Handled(req[r]) IN
       \E fail \in BOOLEAN :
         /\ sessions' = IF Truthy(q.cookie)
                        THEN delete_session(q.cookie, sessions, fail)
                        ELSE sessions
         /\ req' = [req EXCEPT ![r] = Respond(q, 303, "", "/", DeletedCookie)]
    /\ UNCHANGED <<users, feeds, issued, stack, call>>

----------------------------------------------------------------------------

\* the response has been sent; request.state is discarded with the request
Finish(r) ==
    /\ req[r].pc = "done"
    /\ req' = [req EXCEPT ![r] = IdleReq]
    /\ UNCHANGED <<users, sessions, feeds, issued, stack, call>>

Next ==
    \E r \in Slots :
        \/ Receive(r)
        \/ AuthStep(r)
        \/ CSRFStep(r)
        \/ MethodNotAllowed(r)
        \/ new_feed(r)
        \/ create_feed(r)
        \/ delete_feed(r)
        \/ post_register(r)
        \/ post_login(r)
        \/ post_logout(r)
        \/ Finish(r)

Spec == Init /\ [][Next]_vars

----------------------------------------------------------------------------
(* Properties *)

\* slot r takes the step
Steps(r) == req'[r] # req[r]

AtCSRF(r) == req[r].pc = "mw" /\ stack[req[r].i] = "csrf"

AtAuth(r) == req[r].pc = "mw" /\ stack[req[r].i] = "auth"

Protected(r) == req[r].method \in {"POST", "PUT", "PATCH", "DELETE"}

\* the session_id cookie of r names a stored session and the lookup of the
\* request has read that row
Resolved(r) ==
    /\ FetchSessionRow(req[r].cookie, sessions) # None
    /\ req'[r].has_cache
    /\ req'[r].cache = FetchSessionRow(req[r].cookie, sessions)

\* the CSRF middleware has called call_next and produced no response
PassedOn(r) ==
    /\ req'[r].csrf_next = req[r].csrf_next + 1
    /\ req'[r].i = req[r].i + 1
    /\ req'[r].pc = IF req[r].i = Len(stack) THEN "route" ELSE "mw"
    /\ req'[r].status = 0

C2_InvalidTokenRejected ==
    [][\A r \in Slots :
         (AtCSRF(r) /\ Steps(r) /\ Protected(r) /\ Truthy(req[r].header)
            /\ Resolved(r) /\ req[r].header # req'[r].cache[3])
         => /\ req'[r].pc = "done"
            /\ req'[r].status = 403
            /\ req'[r].detail = "CSRF token invalid"
            /\ req'[r].ran = 0]_vars

\* C3: a protected-method request whose cookie resolves to a stored session
\* and whose X-CSRFToken header equals the stored csrf_token is not rejected:
\* the CSRF middleware calls the next handler and produces no response itself.
C3_ValidTokenPasses ==
    [][\A r \in Slots :
         (AtCSRF(r) /\ Steps(r) /\ Protected(r) /\ Resolved(r)
            /\ req[r].header = req'[r].cache[3])
         => PassedOn(r)]_vars

\* POST /logout with the session's token has run the handler, whose 303 is
\* the response
C3_Witness ==
    \E r \in Slots :
        /\ req[r].pc = "done"
        /\ req[r].method = "POST" /\ req[r].path = "/logout"
        /\ req[r].cache # None
        /\ req[r].header = req[r].cache[3]
        /\ req[r].csrf_next = 1
        /\ req[r].ran = 1
        /\ req[r].status = 303

\* C4: a protected-method request without a session_id cookie, or whose cookie
\* names no stored session, is never rejected by the CSRF middleware, whatever
\* its X-CSRFToken header.
C4_UnauthenticatedPasses ==
    [][\A r \in Slots :
         (AtCSRF(r) /\ Steps(r) /\ Protected(r)
            /\ (req[r].cookie = None
                  \/ FetchSessionRow(req[r].cookie, sessions) = None))
         => PassedOn(r)]_vars

\* POST /register without a cookie has created the user and been redirected
C4_Witness ==
    \E r \in Slots :
        /\ req[r].pc = "done"
        /\ req[r].method = "POST" /\ req[r].path = "/register"
        /\ req[r].cookie = None
        /\ req[r].csrf_next = 1
        /\ req[r].ran = 1
        /\ req[r].status = 303

\* C5: a safe-method request (GET, HEAD, OPTIONS, TRACE) is always passed on by
\* the CSRF middleware, without a token check and without a session lookup by
\* that middleware, whatever its cookie and X-CSRFToken header.
C5_SafeMethodsPass ==
    [][\A r \in Slots :
         (AtCSRF(r) /\ Steps(r)
            /\ req[r].method \in {"GET", "HEAD", "OPTIONS", "TRACE"})
         => /\ PassedOn(r)
            /\ req'[r].queries = req[r].queries
            /\ req'[r].has_cache = req[r].has_cache
            /\ req'[r].cache = req[r].cache]_vars

\* a HEAD request of a stored session with a wrong token went through the CSRF
\* middleware first, unchecked and without a lookup
C5_Witness ==
    \E r \in Slots :
        /\ req[r].pc = "mw" /\ req[r].i = 2
        /\ stack[1] = "csrf"
        /\ req[r].method = "HEAD"
        /\ FetchSessionRow(req[r].cookie, sessions) # None
        /\ req[r].header = NonAsciiStr
        /\ req[r].csrf_next = 1
        /\ ~req[r].has_cache /\ req[r].queries = 0

----------------------------------------------------------------------------
(* Order of the two middlewares *)

\* the stack with its two middlewares in the other execution order
OtherOrder(stk) == <<stk[2], stk[1]>>

\* the request of q as it arrived
Restart(q) ==
    NewReq(<<q.method, q.path>>, q.cookie, q.header, q.username, q.password,
           q.feed_id)

\* the middlewares of stk run one after the other on q, up to the router or
\* to the response of the one that does not call call_next
RECURSIVE RunMiddlewares(_, _, _, _, _, _)
RunMiddlewares(q, stk, sess, usrs, fail_s, fail_u) ==
    IF q.pc # "mw" THEN q
    ELSE RunMiddlewares(Dispatch(stk[q.i], q, stk, sess, usrs, fail_s, fail_u),
                        stk, sess, usrs, fail_s, fail_u)

\* the middlewares are through with q: it is at the router, or one of them
\* has answered
MiddlewaresDone(q) == q.pc = "route" \/ (q.pc = "done" /\ q.i <= Len(stack))

\* what the middlewares decided and, when the handler runs, what it sees
Outcome(q) ==
    IF q.pc = "route" THEN <<"accept", q.user, q.csrf_token>>
    ELSE <<"reject", q.status, q.detail>>

\* the session SELECT of q failed although the row is stored
LookupFailed(q) ==
    q.queries > 0 /\ q.cache = None
        /\ FetchSessionRow(q.cookie, sessions) # None

\* User.get_by_id failed in AuthMiddleware
UserLookupFailed(q) ==
    q.pc = "done" /\ q.i <= Len(stack) /\ q.raised = "sqlite3.Error"

----------------------------------------------------------------------------
(* AuthMiddleware *)

\* C7: when the handler runs, request.state is in one of three states: no
\* cookie -> user and csrf_token are None; cookie and successful lookup -> the
\* user whose id is the session's user_id, and the session's csrf_token;
\* cookie and no row or a storage error -> user and csrf_token are None.
C7_AuthStates ==
    \A r \in Slots :
        req[r].pc = "route" =>
          /\ req[r].has_cache
          /\ req[r].cookie = None
               => (req[r].cache = None /\ req[r].user = None
                     /\ req[r].csrf_token = None)
          /\ (req[r].cookie # None /\ req[r].cache # None)
               => /\ \E k \in 1..Len(issued) :
                        issued[k] = SessionRow(req[r].cookie, req[r].cache[2],
                                               req[r].cache[3])
                  /\ req[r].cache[2] \in 1..Len(users)
                  /\ req[r].user = UserObj(req[r].cache[2])
                  /\ req[r].csrf_token = req[r].cache[3]
          /\ (req[r].cookie # None /\ req[r].cache = None)
               => (req[r].user = None /\ req[r].csrf_token = None)

\* a handler is about to run for the second user, on the second session
C7_Witness ==
    \E r \in Slots :
        /\ req[r].pc = "route"
        /\ req[r].cookie = uuid4(2)
        /\ req[r].user = UserObj(2)
        /\ req[r].csrf_token = token_urlsafe(2)

\* C8: AuthMiddleware never blocks or rejects: whatever the cookie, the
\* session and the storage failures of the session or user lookup, it calls
\* the next handler exactly once and produces no response of its own.
C8_AuthNeverBlocks ==
    [][\A r \in Slots :
         (AtAuth(r) /\ Steps(r))
         => /\ req'[r].auth_next = req[r].auth_next + 1
            /\ req'[r].pc \in {"mw", "route"}
            /\ req'[r].status = 0]_vars

----------------------------------------------------------------------------
(* Session store *)

C10_FailedCreateNotLoggedIn ==
    [][\A r \in Slots :
         (Steps(r) /\ req[r].pc = "route"
            /\ req[r].path \in {"/login", "/register"})
         => /\ req'[r].raised = "SessionCreationError"
                 => /\ req'[r].status = 500
                    /\ req'[r].set_cookie = None
                    /\ sessions' = sessions
            /\ req'[r].set_cookie # None
                 => \E s \in sessions' \ sessions :
                        req'[r].set_cookie =
                            CookieStr(<<"tuple", s.id, s.csrf_token>>)]_vars

\* a registration created the user, its create_session failed, and the 500
\* page carries no cookie
C10_Witness ==
    \E r \in Slots :
        /\ req[r].pc = "done" /\ req[r].path = "/register"
        /\ req[r].raised = "SessionCreationError"
        /\ req[r].status = 500
        /\ req[r].set_cookie = None
        /\ Len(users) = 1
        /\ sessions = {}

----------------------------------------------------------------------------
(* Identity routes *)

\* r takes the step of the handler of path
RouteStep(r, path) == Steps(r) /\ req[r].pc = "route" /\ req[r].path = path

\* C11: after a successful POST /login or POST /register, the session_id
\* cookie set on the 303 response is the id of a stored session of the user
\* who logged in or registered: the lookup of the cookie value returns that
\* user's id and a csrf_token.
C11_CookieIsSessionId ==
    [][\A r \in Slots :
         ((RouteStep(r, "/login") \/ RouteStep(r, "/register"))
            /\ req'[r].status = 303)
         => LET row == get_session(req'[r].set_cookie, sessions', FALSE) IN
            /\ row # None
            /\ row[2] \in 1..Len(users')
            /\ users'[row[2]].username = req[r].username
            /\ row[3] # None]_vars

\* POST /logout never fails: the redirect that clears the cookie, whatever
\* delete_session met
LogoutAnswers(r) ==
    /\ req'[r].raised = ""
    /\ req'[r].status = 303
    /\ req'[r].set_cookie = DeletedCookie

\* nothing but the session of the cookie of r is touched, and a cookie that
\* names no stored session changes nothing
OnlyOwnSession(r) ==
    /\ UNCHANGED <<users, feeds, issued>>
    /\ sessions' \subseteq sessions
    /\ \A s \in sessions \ sessions' : s.id = req[r].cookie
    /\ FetchSessionRow(req[r].cookie, sessions) = None => sessions' = sessions

\* a session id that was issued and is no longer stored is never stored again
GoneStaysGone ==
    \A k \in 1..Len(issued) :
        FetchSessionRow(issued[k].id, sessions) = None
        => FetchSessionRow(issued[k].id, sessions') = None

\* a handler that runs for a cookie naming no stored session sees no user
UnstoredIsAnonymous ==
    \A r \in Slots :
        (req[r].pc = "route" /\ FetchSessionRow(req[r].cookie, sessions) = None)
        => req[r].user = None

\* C12 as stated: after every delete_session(s) made by POST /logout, also one
\* made while storage fails, a lookup of s returns None; delete_session never
\* raises and changes nothing else.
C12_DeletedIsGone ==
    [][\A r \in Slots :
         RouteStep(r, "/logout")
         => /\ LogoutAnswers(r)
            /\ OnlyOwnSession(r)
            /\ FetchSessionRow(req[r].cookie, sessions') = None]_vars

\* C12 (amended): delete_session never raises and is idempotent.  After a
\* delete_session(s) whose DELETE ran (POST /logout for the cookie's session)
\* every later lookup of s returns None, a request carrying that cookie is
\* anonymous and no other row changed; deleting s again or an id that never
\* existed changes nothing; when storage fails during the delete nothing is
\* raised and nothing changes, s included.
C12_DeleteIdempotent ==
    /\ []UnstoredIsAnonymous
    /\ [][GoneStaysGone]_vars
    /\ [][\A r \in Slots :
            RouteStep(r, "/logout")
            => /\ LogoutAnswers(r)
               /\ OnlyOwnSession(r)
               /\ \/ FetchSessionRow(req[r].cookie, sessions') = None
                  \/ sessions' = sessions]_vars

\* the first of two sessions has been logged out with its own cookie; the
\* other session is still stored
C12_Witness ==
    \E r \in Slots :
        /\ req[r].pc = "done" /\ req[r].path = "/logout"
        /\ req[r].status = 303
        /\ Len(issued) = 2
        /\ req[r].cookie = issued[1].id
        /\ FetchSessionRow(issued[1].id, sessions) = None
        /\ FetchSessionRow(issued[2].id, sessions) # None

----------------------------------------------------------------------------
(* Session rows *)

\* every stored session is looked up as the row its creation returned
StoredAsIssued ==
    \A s \in sessions :
        /\ \E k \in 1..Len(issued) : issued[k] = s
        /\ FetchSessionRow(s.id, sessions) = <<"row", s.user_id, s.csrf_token>>

\* a stored session stays stored, with the same row, through every step but
\* the delete_session of its own id
KeptUntilDeleted ==
    \A s \in sessions :
        \/ /\ s \in sessions'
           /\ FetchSessionRow(s.id, sessions')
                  = <<"row", s.user_id, s.csrf_token>>
        \/ \E r \in Slots : RouteStep(r, "/logout") /\ req[r].cookie = s.id

\* C13: a session row never changes and never expires: from its creation
\* until delete_session is called for its id, after any other operation, a
\* lookup of the id returns the user_id and the csrf_token creation returned.
C13_SessionImmutable ==
    /\ []StoredAsIssued
    /\ [][KeptUntilDeleted]_vars

\* the first session is still stored as issued after a second login of the
\* same user, the logout of that second session and the deletion of a feed
C13_Witness ==
    /\ Len(issued) = 2
    /\ issued[1].user_id = issued[2].user_id
    /\ FetchSessionRow(issued[1].id, sessions)
           = <<"row", issued[1].user_id, issued[1].csrf_token>>
    /\ FetchSessionRow(issued[2].id, sessions) = None
    /\ feeds = {}

----------------------------------------------------------------------------
(* User store *)

UniqueUsernames ==
    \A j, k \in 1..Len(users) :
        users[j].username = users[k].username => j = k

\* rows of the users table are never changed or removed
UsersKept ==
    /\ Len(users') >= Len(users)
    /\ \A k \in 1..Len(users) : users'[k] = users[k]

\* the two outcomes of User.create in POST /register, a storage failure of
\* the INSERT aside
CreateOutcome(r) ==
    IF \E k \in 1..Len(users) : users[k].username = req[r].username
    THEN /\ req'[r].raised = ""
         /\ req'[r].status = 200
         /\ req'[r].detail = "Username already exists"
         /\ req'[r].set_cookie = None
         /\ UNCHANGED <<users, sessions>>
    ELSE /\ Len(users') = Len(users) + 1
         /\ users'[Len(users')].username = req[r].username
         /\ verify_password(req[r].password, users'[Len(users')].password_hash)
         /\ issued' # issued => issued'[Len(issued')].user_id = Len(users')

\* C14: usernames are unique in every reachable state of the user store:
\* User.create with a stored username returns the duplicate outcome without
\* raising, leaves every stored row and hash unchanged and adds no row;
\* User.create with a fresh username returns a User with the id storage
\* assigned to its new row.
C14_UniqueUsernames ==
    /\ []UniqueUsernames
    /\ [][UsersKept]_vars
    /\ [][\A r \in Slots :
            (RouteStep(r, "/register") /\ req'[r].raised # "sqlite3.Error")
            => CreateOutcome(r)]_vars

\* with two users stored, a registration of a stored username has been
\* answered with the duplicate page
C14_Witness ==
    \E r \in Slots :
        /\ req[r].pc = "done" /\ req[r].path = "/register"
        /\ req[r].detail = "Username already exists"
        /\ req[r].raised = ""
        /\ Len(users) = 2
        /\ users[1].username = req[r].username

----------------------------------------------------------------------------
(* Concurrent registrations.  The handlers of two requests run in threads  *)
(* of the pool; each statement group of post_register is a step.  SQLite   *)
(* admits one write transaction at a time: a second writer waits in the    *)
(* busy handler (busy_timeout) until the first has committed.              *)

RegSlots == {1, 2}

InitReg ==
    /\ users = <<>>
    /\ sessions = {}
    /\ feeds = {FeedRow(1, 88721)}
    /\ issued = <<>>
    /\ stack \in Stacks
    /\ req = [r \in RegSlots |-> IdleReq]
    /\ call = NoCall

\* a registration form arrives, from a client without a session
RegReceive(r) ==
    /\ req[r].pc = "idle"
    /\ \E username \in Usernames, password \in Passwords :
         req' = [req EXCEPT ![r] =
                   NewReq(<<"POST", "/register">>, None, None,
                          username, password, 0)]
    /\ UNCHANGED <<users, sessions, feeds, issued, stack, call>>

\* another connection is inside its write transaction
WriteLocked(r) == \E o \in RegSlots \ {r} : req[o].pc = "created"

\* post_register up to cursor.lastrowid of User.create: the INSERT, in the
\* transaction the with block opened
RegInsert(r) ==
    /\ AtRoute(r, "POST", "/register")
    /\ ~WriteLocked(r)
    /\ LET q == Handled(req[r]) IN
       \E fail_c \in BOOLEAN :
         LET u == User_create(q.username, q.password, users, fail_c) IN
         IF u.ret[1] = "raise"
         THEN /\ req' = [req EXCEPT ![r] = Unhandled(q, u.ret[2])]
              /\ users' = users
         ELSE IF u.ret = None
         THEN /\ req' = [req EXCEPT ![r] =
                           TemplateResponse(q, 200, "Username already exists")]
              /\ users' = users
         ELSE /\ req' = [req EXCEPT ![r] =
                           [q EXCEPT !.pc = "created", !.created = u.ret]]
              /\ users' = u.users
    /\ UNCHANGED <<sessions, feeds, issued, stack, call>>

\* the rest of User.create: SELECT created_at, commit at the end of the with
\* block (a failure rolls the INSERT back and leaves post_register), close
RegCommit(r) ==
    /\ req[r].pc = "created"
    /\ \E fail_c \in BOOLEAN :
         IF fail_c
         THEN /\ req' = [req EXCEPT ![r] = Unhandled(req[r], "sqlite3.Error")]
              /\ users' = SubSeq(users, 1, Len(users) - 1)
         ELSE /\ req' = [req EXCEPT ![r].pc = "session"]
              /\ users' = users
    /\ UNCHANGED <<sessions, feeds, issued, stack, call>>

\* the auto-login of post_register: create_session and the response
RegSession(r) ==
    /\ req[r].pc = "session"
    /\ ~WriteLocked(r)
    /\ \E fail \in BOOLEAN :
         LoginTail(r, req[r], req[r].created[2], "/", fail)
    /\ UNCHANGED <<users, feeds, stack, call>>

NextReg ==
    \E r \in RegSlots :
        \/ RegReceive(r)
        \/ AuthStep(r)
        \/ CSRFStep(r)
        \/ RegInsert(r)
        \/ RegCommit(r)
        \/ RegSession(r)

SpecReg == InitReg /\ [][NextReg]_vars

\* User.create of r has run its INSERT and no statement of the handler has
\* met a storage failure
Decided(r) == req[r].ran = 1 /\ req[r].raised # "sqlite3.Error"

Duplicate(r) ==
    /\ req[r].pc = "done"
    /\ req[r].status = 200
    /\ req[r].detail = "Username already exists"
    /\ req[r].created = None

Created(r) ==
    /\ req[r].created # None
    /\ req[r].created[2] \in 1..Len(users)
    /\ users[req[r].created[2]].username = req[r].username
    /\ req[r].pc = "done"
         => \/ req[r].status = 303
            \/ req[r].status = 500 /\ req[r].raised = "SessionCreationError"

\* C15: when two registrations of the same username run concurrently, under
\* every interleaving exactly one of them creates the user and the other
\* receives the duplicate outcome; the store never holds two users of that
\* name and neither request fails with an unhandled error.
C15_ConcurrentRegistration ==
    /\ UniqueUsernames
    /\ \A r \in RegSlots :
           req[r].raised \in {"", "sqlite3.Error", "SessionCreationError"}
    /\ (Decided(1) /\ Decided(2) /\ req[1].username = req[2].username)
          => \/ Created(1) /\ Duplicate(2)
             \/ Created(2) /\ Duplicate(1)

\* the second request ran its INSERT and was told the name exists while the
\* first, which created alice, had not yet created its session
C15_Witness ==
    /\ req[1].pc = "session" /\ req[1].created = UserObj(1)
    /\ req[2].pc = "done" /\ Duplicate(2)
    /\ req[1].username = "alice" /\ req[2].username = "alice"
    /\ Len(users) = 1

----------------------------------------------------------------------------
(* Login *)

\* row k holds username and the hash of password under the salt of the row
Matches(k, username, password) ==
    /\ users[k].username = username
    /\ users[k].password_hash =
           StoredHash(password, split(users[k].password_hash)[2])

\* what the client sees of the answer
Response(q) == <<q.status, q.detail, q.location, q.set_cookie>>

\* C16: User.authenticate returns the stored user exactly when the username
\* exists and the password matches its stored hash; for an unknown username
\* and for a known username with a wrong password POST /login gives the same
\* response ("Invalid username or password"), creates no session and sets
\* no cookie.
C16_AuthenticateUniform ==
    [][\A r \in Slots :
         (RouteStep(r, "/login") /\ req'[r].raised # "sqlite3.Error")
         => IF \E k \in 1..Len(users) :
                   Matches(k, req[r].username, req[r].password)
            THEN \/ /\ req'[r].status = 303
                    /\ req'[r].set_cookie # None
                    /\ Len(issued') = Len(issued) + 1
                    /\ Matches(issued'[Len(issued')].user_id,
                               req[r].username, req[r].password)
                 \/ /\ req'[r].status = 500
                    /\ req'[r].raised = "SessionCreationError"
            ELSE /\ Response(req'[r])
                      = <<200, "Invalid username or password", "", None>>
                 /\ req'[r].raised = ""
                 /\ UNCHANGED <<sessions, issued>>]_vars

\* a login with the name of a stored user and a password that is not theirs
\* has been answered like one for an unknown name
C16_Witness ==
    \E r \in Slots :
        /\ req[r].pc = "done" /\ req[r].path = "/login"
        /\ req[r].detail = "Invalid username or password"
        /\ \E k \in 1..Len(users) :
               /\ users[k].username = req[r].username
               /\ ~Matches(k, req[r].username, req[r].password)
        /\ req[r].set_cookie = None
        /\ sessions = {}

----------------------------------------------------------------------------
(* verify_password on arbitrary stored strings *)

\* stored strings of up to MaxStoredLen pieces are tried
MaxStoredLen == 5

\* the pieces the stored strings are made of
Pieces ==
    {Sep, AlgorithmInfo(600000), AlgorithmInfo(1), AsciiChars, NonAsciiStr,
     Surrogate, token_hex(1)[1], pbkdf2_hmac("pw1", token_hex(1), 600000),
     pbkdf2_hmac("pw1", token_hex(1), 1)}

StoredInputs ==
    UNION {[1..n -> Pieces] : n \in 0..MaxStoredLen}

InitVerify ==
    /\ users = <<>>
    /\ sessions = {}
    /\ feeds = {FeedRow(1, 88721)}
    /\ issued = <<>>
    /\ stack = <<"auth", "csrf">>
    /\ req = [r \in Slots |-> IdleReq]
    /\ \E password \in Passwords, stored_hash \in StoredInputs :
         call = [pc |-> "call", password |-> password,
                 stored_hash |-> stored_hash, ret |-> FALSE, raised |-> ""]

\* verify_password(password, stored_hash) runs
Verify ==
    /\ call.pc = "call"
    /\ call' =
         IF verify_password_raises(call.password, call.stored_hash)
         THEN [call EXCEPT !.pc = "returned", !.raised = "TypeError"]
         ELSE [call EXCEPT !.pc = "returned",
                           !.ret = verify_password(call.password,
                                                   call.stored_hash)]
    /\ UNCHANGED <<users, sessions, feeds, issued, stack, req>>

NextVerify == Verify

SpecVerify == InitVerify /\ [][NextVerify]_vars

\* the salts a stored string of the tried length can hold: one piece that is
\* not the separator and that encodes
SaltInputs == {<<c>> : c \in Pieces \ {Sep, Surrogate}}

\* stored_hash is the string User.create stores for password under some salt
BuiltFrom(password, stored_hash) ==
    \E salt \in SaltInputs : stored_hash = StoredHash(password, salt)

\* C17: for every password p and salt, verify_password(p, stored string built
\* from hash_password(p)) is True; for every other password it is False; and
\* for every malformed stored string (wrong number of '$' parts, wrong
\* algorithm prefix, arbitrary characters in the salt or hash part) it
\* returns False and never raises.
C17_VerifyTotal ==
    call.pc = "returned"
    => /\ call.raised = ""
       /\ call.ret = BuiltFrom(call.password, call.stored_hash)

----------------------------------------------------------------------------
(* The routes with every kind of form input: the login form with its next  *)
(* field, feed requests on a table of two feeds.  The requests come from a *)
(* client that holds no cookie, or the id and token of an issued session.  *)

\* values of the next field: absent, empty, the three tokens, an unmapped
\* token, a raw path, an external URL
NextInputs ==
    {None} \cup {FormText(t) : t \in {"", "feeds_new", "feeds_list", "home",
                                       "invalid_token", "/feeds/new",
                                       "https://evil.com"}}

\* the feed_id path parameter: the ids of the two stored rows, and another
AppFeedIds == {1, 2, 3}

\* the ounces field of the feed form, in hundredths: negative, zero, the
\* least value, 3.50, 10.00 and 10.01
OuncesInputs == {0 - 100, 0, 1, 350, 1000, 1001}

AppCookieInputs == {None} \cup {uuid4(k) : k \in 1..MaxSessions}

AppHeaderInputs == {None} \cup {token_urlsafe(k) : k \in 1..MaxSessions}

InitApp ==
    /\ users = <<>>
    /\ sessions = {}
    /\ feeds = {FeedRow(1, 88721), FeedRow(2, 96114)}
    /\ issued = <<>>
    /\ stack \in Stacks
    /\ req = [r \in Slots |-> IdleReq]
    /\ call = NoCall

ReceiveApp(r) ==
    /\ req[r].pc = "idle"
    /\ \/ /\ Len(issued) < MaxSessions
          /\ \E username \in Usernames, password \in Passwords,
                next \in NextInputs :
               req' = [req EXCEPT ![r] =
                         [NewReq(<<"POST", "/login">>, None, None,
                                 username, password, 0)
                          EXCEPT !.next = next]]
       \/ /\ Len(issued) < MaxSessions
          /\ \E username \in Usernames, password \in RegisterPasswords :
               req' = [req EXCEPT ![r] =
                         NewReq(<<"POST", "/register">>, None, None,
                                username, password, 0)]
       \/ \E cookie \in AppCookieInputs, header \in AppHeaderInputs :
             \/ \E feed_id \in AppFeedIds :
                    req' = [req EXCEPT ![r] =
                              NewReq(<<"DELETE", "/feeds/{feed_id}">>,
                                     cookie, header, "", "", feed_id)]
             \/ \E ounces \in OuncesInputs :
                    req' = [req EXCEPT ![r] =
                              [NewReq(<<"POST", "/feeds">>,
                                      cookie, header, "", "", 0)
                               EXCEPT !.ounces = ounces]]
             \/ \E ep \in {<<"GET", "/feeds/new">>, <<"POST", "/logout">>} :
                    req' = [req EXCEPT ![r] =
                              NewReq(ep, cookie, header, "", "", 0)]
    /\ UNCHANGED <<users, sessions, feeds, issued, stack, call>>

NextApp ==
    \E r \in Slots :
        \/ ReceiveApp(r)
        \/ AuthStep(r)
        \/ CSRFStep(r)
        \/ new_feed(r)
        \/ create_feed(r)
        \/ delete_feed(r)
        \/ post_register(r)
        \/ post_login(r)
        \/ post_logout(r)
        \/ Finish(r)

SpecApp == InitApp /\ [][NextApp]_vars

\* the allow-list of the claim: token -> fixed internal path, all else -> /
AllowedLocation(next) ==
    IF next = FormText("feeds_new") THEN "/feeds/new"
    ELSE IF next = FormText("feeds_list") THEN "/feeds"
    ELSE "/"

\* C18: after a successful POST /login the redirect location is one of the
\* fixed internal paths: a next value that is a key of the allow-list
\* redirects to its mapped path and every other next value (absent, empty,
\* unmapped token, raw path, external URL) redirects to /; the next string
\* itself is never used as the location.
C18_RedirectAllowList ==
    [][\A r \in Slots :
         (RouteStep(r, "/login") /\ req'[r].status = 303)
         => /\ req'[r].location \in {"/feeds/new", "/feeds", "/"}
            /\ req'[r].location = AllowedLocation(req[r].next)
            /\ req[r].next \in {FormText("/feeds/new"),
                                 FormText("https://evil.com")}
                 => req'[r].location # req[r].next[2]]_vars

\* a login that asked for an external URL has been redirected to /
C18_Witness ==
    \E r \in Slots :
        /\ req[r].pc = "done" /\ req[r].path = "/login"
        /\ req[r].status = 303
        /\ req[r].next = FormText("https://evil.com")
        /\ req[r].location = "/"
        /\ req[r].set_cookie # None

----------------------------------------------------------------------------
(* Feed routes *)

FeedPaths == {"/feeds/new", "/feeds", "/feeds/{feed_id}"}

\* r takes the step of a feed handler
FeedStep(r) ==
    Steps(r) /\ req[r].pc = "route" /\ req[r].path \in FeedPaths

\* the user of r is the user of the stored session its cookie names
RunsAsUser(r) ==
    LET row == FetchSessionRow(req[r].cookie, sessions) IN
    /\ row # None
    /\ row[2] \in 1..Len(users)
    /\ req[r].user = UserObj(row[2])

\* C19: feed writes require authentication: a GET /feeds/new, POST /feeds or
\* DELETE /feeds/{id} request that does not resolve to a user is answered
\* with a 303 redirect to /login (next=feeds_new, or next=feeds_list for
\* DELETE) and never inserts or deletes a feed; the stored feeds only change
\* in requests that run as an authenticated user.
C19_FeedWritesNeedAuth ==
    [][/\ \A r \in Slots :
            (FeedStep(r) /\ req[r].user = None)
            => /\ req'[r].status = 303
               /\ req'[r].location =
                      IF req[r].method = "DELETE"
                      THEN "/login?next=feeds_list"
                      ELSE "/login?next=feeds_new"
               /\ req'[r].set_cookie = None
               /\ feeds' = feeds
       /\ feeds' # feeds
            => \E r \in Slots : FeedStep(r) /\ RunsAsUser(r)]_vars

\* a DELETE of a stored feed that carried the cookie and token of a session
\* that has been logged out was sent to the login page; the feed is stored
C19_Witness ==
    \E r \in Slots :
        /\ req[r].pc = "done"
        /\ req[r].method = "DELETE" /\ req[r].path = "/feeds/{feed_id}"
        /\ Len(issued) >= 1
        /\ req[r].cookie = issued[1].id
        /\ req[r].header = issued[1].csrf_token
        /\ FetchSessionRow(req[r].cookie, sessions) = None
        /\ req[r].user = None
        /\ req[r].status = 303
        /\ req[r].location = "/login?next=feeds_list"
        /\ \E f \in feeds : f.id = req[r].feed_id

\* C20: Feed.delete(id) returns True exactly when a feed with that id was
\* stored, and then removes that feed and no other; for an id that is not
\* stored it returns False, raises nothing and leaves the feed store
\* unchanged, and DELETE /feeds/{id} then shows a "Feed with ID <id> not
\* found" page instead of failing.
C20_DeleteFeed ==
    [][\A r \in Slots :
         (RouteStep(r, "/feeds/{feed_id}") /\ req[r].user # None
            /\ req'[r].raised # "sqlite3.Error")
         => IF \E f \in feeds : f.id = req[r].feed_id
            THEN /\ feeds' = {f \in feeds : f.id # req[r].feed_id}
                 /\ Cardinality(feeds') = Cardinality(feeds) - 1
                 /\ req'[r].status = 303
                 /\ req'[r].location = "/feeds"
            ELSE /\ feeds' = feeds
                 /\ req'[r].raised = ""
                 /\ req'[r].status = 200
                 /\ req'[r].detail
                        = IF req[r].feed_id = 3
                          THEN "Feed with ID 3 not found"
                          ELSE IF req[r].feed_id = 2
                          THEN "Feed with ID 2 not found"
                          ELSE "Feed with ID 1 not found"]_vars

\* feed 1 was deleted and feed 2 is still stored; a second DELETE of feed 1
\* has been answered with the not-found page
C20_Witness ==
    \E r \in Slots :
        /\ req[r].pc = "done" /\ req[r].path = "/feeds/{feed_id}"
        /\ req[r].user # None
        /\ req[r].feed_id = 1
        /\ feeds = {FeedRow(2, 96114)}
        /\ req[r].status = 200
        /\ req[r].detail = "Feed with ID 1 not found"

----------------------------------------------------------------------------
(* Unit conversion (units.py).  A Decimal is its coefficient, written as   *)
(* the sequence of its decimal digits, and an exponent; arithmetic is done *)
(* under the default context: 28 significant digits, ROUND_HALF_EVEN.      *)
(* Ounces with two decimal places are given as their number of hundredths. *)

\* decimal.getcontext().prec
DecimalPrec == 28

\* the coefficient of Decimal("29573.5"), whose exponent is -1
OZ_TO_MICROLITERS == 295735

RECURSIVE IntDigits(_)
IntDigits(n) == IF n = 0 THEN <<>> ELSE IntDigits(n \div 10) \o <<n % 10>>

RECURSIVE DigitsInt(_)
DigitsInt(ds) ==
    IF ds = <<>> THEN 0
    ELSE 10 * DigitsInt(SubSeq(ds, 1, Len(ds) - 1)) + ds[Len(ds)]

\* ds + 1
RECURSIVE Increment(_)
Increment(ds) ==
    IF ds = <<>> THEN <<1>>
    ELSE IF ds[Len(ds)] < 9
    THEN SubSeq(ds, 1, Len(ds) - 1) \o <<ds[Len(ds)] + 1>>
    ELSE Increment(SubSeq(ds, 1, Len(ds) - 1)) \o <<0>>

\* the digits of ds * n + carry, ds[1..i] still to multiply
RECURSIVE MulCarry(_, _, _, _)
MulCarry(ds, n, i, carry) ==
    IF i = 0 THEN IntDigits(carry)
    ELSE LET t == ds[i] * n + carry
         IN  MulCarry(ds, n, i - 1, t \div 10) \o <<t % 10>>

\* the quotient rem / OZ_TO_MICROLITERS by long division: ds are the
\* significant digits found, exp the exponent of the last digit produced;
\* the DecimalPrec-th digit is rounded half-even on the remainder
RECURSIVE LongDiv(_, _, _)
LongDiv(rem, ds, exp) ==
    IF Len(ds) = DecimalPrec
    THEN LET up == \/ 2 * rem > OZ_TO_MICROLITERS
                   \/ 2 * rem = OZ_TO_MICROLITERS /\ ds[Len(ds)] % 2 = 1
         IN  [digits |-> IF up THEN Increment(ds) ELSE ds, exp |-> exp]
    ELSE LET d == (rem * 10) \div OZ_TO_MICROLITERS
             r == (rem * 10) % OZ_TO_MICROLITERS
         IN  LongDiv(r, IF ds = <<>> /\ d = 0 THEN ds ELSE Append(ds, d),
                     exp - 1)

\* Decimal("1") / OZ_TO_MICROLITERS, that is 10 / 295735
MICROLITERS_TO_OZ == LongDiv(10, <<>>, 0)

\* a coefficient of more than DecimalPrec digits is rounded half-even to
\* DecimalPrec digits, as the context does to the result of an operation
ContextRound(x) ==
    IF Len(x.digits) <= DecimalPrec THEN x
    ELSE LET kept == SubSeq(x.digits, 1, DecimalPrec)
             rest == SubSeq(x.digits, DecimalPrec + 1, Len(x.digits))
             tail == \E i \in 2..Len(rest) : rest[i] # 0
             up == \/ rest[1] > 5
                   \/ rest[1] = 5 /\ tail
                   \/ rest[1] = 5 /\ ~tail /\ kept[DecimalPrec] % 2 = 1
             ds == IF up THEN Increment(kept) ELSE kept
             e == x.exp + Len(rest)
         IN  IF Len(ds) > DecimalPrec
             THEN [digits |-> SubSeq(ds, 1, DecimalPrec), exp |-> e + 1]
             ELSE [digits |-> ds, exp |-> e]

\* x.quantize(Decimal("0.01"), rounding=ROUND_HALF_UP) for x.exp <= -2,
\* as a number of hundredths
QuantizeHundredths(x) ==
    LET drop == (0 - 2) - x.exp
        pad == IF drop + 1 > Len(x.digits)
               THEN [i \in 1..(drop + 1 - Len(x.digits)) |-> 0] ELSE <<>>
        ds == pad \o x.digits
        kept == DigitsInt(SubSeq(ds, 1, Len(ds) - drop))
    IN  IF drop = 0 THEN kept
        ELSE IF ds[Len(ds) - drop + 1] >= 5 THEN kept + 1 ELSE kept

Abs(n) == IF n < 0 THEN 0 - n ELSE n

Signed(n, m) == IF n < 0 THEN 0 - m ELSE m

\* ounces * OZ_TO_MICROLITERS is exact: ounces * 295735 thousandths of a
\* microliter; quantize(Decimal("1"), ROUND_HALF_UP) rounds the magnitude
ounces_to_microliters(ounces) ==
    LET thousandths == Abs(ounces) * OZ_TO_MICROLITERS
        q == thousandths \div 1000
    IN  Signed(ounces, IF thousandths % 1000 >= 500 THEN q + 1 ELSE q)

\* variant: the quotient is cut to two decimals (ROUND_DOWN)
microliters_to_ounces_RoundDown(microliters) ==
    LET product == ContextRound(
            [digits |-> MulCarry(MICROLITERS_TO_OZ.digits, Abs(microliters),
                                 Len(MICROLITERS_TO_OZ.digits), 0),
             exp |-> MICROLITERS_TO_OZ.exp])
        drop == (0 - 2) - product.exp
    IN  Signed(microliters,
               DigitsInt(SubSeq(product.digits, 1, Len(product.digits) - drop)))

\* Decimal(microliters) * MICROLITERS_TO_OZ, rounded by the context, then
\* quantized to two decimals
microliters_to_ounces(microliters) ==
    LET product == ContextRound(
            [digits |-> MulCarry(MICROLITERS_TO_OZ.digits, Abs(microliters),
                                 Len(MICROLITERS_TO_OZ.digits), 0),
             exp |-> MICROLITERS_TO_OZ.exp])
    IN  Signed(microliters, QuantizeHundredths(product))

\* ounce values of up to MaxOunces hundredths are tried, of either sign
MaxOunces == 1000

InitUnits ==
    /\ users = <<>>
    /\ sessions = {}
    /\ feeds = {FeedRow(1, 88721)}
    /\ issued = <<>>
    /\ stack = <<"auth", "csrf">>
    /\ req = [r \in Slots |-> IdleReq]
    /\ \E ounces \in (0 - MaxOunces)..MaxOunces :
         call = [pc |-> "call", ounces |-> ounces, microliters |-> 0,
                 back |-> 0]

\* ounces_to_microliters(ounces) runs
ToMicroliters ==
    /\ call.pc = "call"
    /\ call' = [call EXCEPT !.pc = "converted",
                            !.microliters = ounces_to_microliters(call.ounces)]
    /\ UNCHANGED <<users, sessions, feeds, issued, stack, req>>

\* microliters_to_ounces runs on the result
ToOunces ==
    /\ call.pc = "converted"
    /\ call' = [call EXCEPT !.pc = "returned",
                            !.back = microliters_to_ounces(call.microliters)]
    /\ UNCHANGED <<users, sessions, feeds, issued, stack, req>>

NextUnits == ToMicroliters \/ ToOunces

SpecUnits == InitUnits /\ [][NextUnits]_vars

\* C21: for every ounce value with at most two decimal places from 0.01 up,
\* microliters_to_ounces(ounces_to_microliters(x)) equals x exactly; 3.25 oz
\* is stored as 96114 microliters and 3.00 oz as 88721.
C21_RoundTrip ==
    (call.pc = "returned" /\ call.ounces >= 1)
    => /\ call.back = call.ounces
       /\ call.microliters >= 0
       /\ call.ounces = 325 => call.microliters = 96114
       /\ call.ounces = 300 => call.microliters = 88721

\* 2.75 oz, whose 81327.125 microliters are rounded down on the way in, has
\* come back as 2.75
C21_Witness ==
    /\ call.pc = "returned"
    /\ call.ounces = 275
    /\ call.microliters = 81327
    /\ call.back = 275

----------------------------------------------------------------------------
(* Feed volumes *)

\* the ounces value is in the accepted range, 0.01 to 10.00
ValidOunces(ounces) == ounces >= 1 /\ ounces <= 1000

\* C22: the volume of every stored feed is a non-negative integer number of
\* micro-units: after any sequence of POST /feeds requests with any submitted
\* ounces value no feed row with a negative volume exists, and zero, negative
\* and over-range values are rejected as validation errors: a 4xx answer,
\* nothing raised, nothing stored.
C22_VolumeNonNegative ==
    /\ [](\A f \in feeds : f.volume_ul >= 0)
    /\ [][\A r \in Slots :
            (RouteStep(r, "/feeds") /\ req[r].user # None
               /\ ~ValidOunces(req[r].ounces))
            => /\ req'[r].status \in 400..499
               /\ req'[r].raised = ""
               /\ feeds' = feeds]_vars

----------------------------------------------------------------------------
(* Storage-facing operations and their connections.  An operation is run  *)
(* in steps: get_connection, the statements of the try block together     *)
(* with the except clause that takes their error, the finally clause, and *)
(* the return.  call.open counts the connections that are open.           *)

\* Feed.save is called while the feeds sequence is below MaxFeedSeq
MaxFeedSeq == 2

\* the operations that write conn = None before a try block that holds
\* get_connection (auth.py, session_cache.py); the others (feed.py, user.py)
\* call get_connection before the try block
ConnInsideTry ==
    {"create_session", "get_session", "delete_session", "get_or_fetch_session"}

StoreOps ==
    {"Feed.save", "Feed.get_all", "Feed.delete", "User.create",
     "User.authenticate", "User.get_by_id"} \cup ConnInsideTry

\* Feed.from_form: the volume of the Feed built from the ounces field
Feed_from_form(ounces) == ounces_to_microliters(ounces)

\* Feed.save: INSERT INTO feeds (volume_ul, datetime); the row takes the
\* next id of the sequence
Feed_save(volume_ul, fds, seq, fail) ==
    IF fail THEN [raised |-> "sqlite3.Error", feeds |-> fds, seq |-> seq]
    ELSE [raised |-> "", feeds |-> fds \cup {FeedRow(seq + 1, volume_ul)},
          seq |-> seq + 1]

\* the arguments an operation is called with
StoreArgs(op) ==
    CASE op = "Feed.save" -> {<<Feed_from_form(o)>> : o \in {0 - 100, 350}}
      [] op = "Feed.get_all" -> {<<>>}
      [] op = "Feed.delete" -> {<<id>> : id \in AppFeedIds}
      [] op = "User.create" -> Usernames \X RegisterPasswords
      [] op = "User.authenticate" -> Usernames \X Passwords
      [] op = "User.get_by_id" -> {<<id>> : id \in 1..2}
      [] op = "create_session" -> {<<1>>}
      [] op = "get_session" -> {<<uuid4(k)>> : k \in 1..MaxSessions}
      [] op = "delete_session" -> {<<uuid4(k)>> : k \in 1..MaxSessions}
      [] op = "get_or_fetch_session" ->
             BOOLEAN \X ({None, EmptyStr} \cup {uuid4(k) : k \in 1..MaxSessions})

IdleCall(open, seq) ==
    [pc |-> "idle", op |-> "", args |-> <<>>, conn |-> FALSE, open |-> open,
     opened |-> FALSE, error |-> FALSE, ret |-> None, raised |-> "",
     seq |-> seq]

InitStore ==
    /\ users = <<>>
    /\ sessions = {}
    /\ feeds = {FeedRow(1, 88721)}
    /\ issued = <<>>
    /\ stack = <<"auth", "csrf">>
    /\ req = [r \in Slots |-> IdleReq]
    /\ call = IdleCall(0, 1)

\* an operation is called.  get_or_fetch_session returns the cached value
\* when request.state has one, and None for a missing or empty cookie,
\* without a connection
StoreCall ==
    /\ call.pc = "idle"
    /\ \E op \in StoreOps : \E args \in StoreArgs(op) :
         /\ op = "create_session" => Len(issued) < MaxSessions
         /\ op = "Feed.save" => call.seq < MaxFeedSeq
         /\ call' = [call EXCEPT
                       !.op = op, !.args = args,
                       !.pc = IF op = "get_or_fetch_session"
                                   /\ (args[1] \/ ~Truthy(args[2]))
                              THEN "returned" ELSE "connect"]
    /\ UNCHANGED <<users, sessions, feeds, issued, stack, req>>

\* variant: the lookups have no except clause either
ExceptClause_LookupsRaise(c) ==
    IF c.op = "create_session"
    THEN [c EXCEPT !.error = TRUE, !.raised = "SessionCreationError"]
    ELSE IF c.op = "delete_session"
    THEN [c EXCEPT !.error = TRUE, !.ret = None, !.raised = ""]
    ELSE [c EXCEPT !.error = TRUE, !.raised = "sqlite3.Error"]

\* what the except clause of the operation makes of a sqlite3.Error raised
\* in its try block (error): raised is the exception that leaves the
\* operation
ExceptClause(c) ==
    IF c.op = "create_session"
    THEN [c EXCEPT !.error = TRUE, !.raised = "SessionCreationError"]
    ELSE IF c.op \in ConnInsideTry
    THEN [c EXCEPT !.error = TRUE, !.ret = None, !.raised = ""]
    ELSE [c EXCEPT !.error = TRUE, !.raised = "sqlite3.Error"]

\* get_connection(db_path): sqlite3.connect raises and no connection is
\* open, or the connection is returned (the PRAGMAs read no storage).  A
\* get_connection that raises before the try block leaves the operation
\* at once; inside the try block the except and finally clauses run, with
\* conn still None
StoreConnect ==
    /\ call.pc = "connect"
    /\ \E fail \in BOOLEAN :
         call' =
           IF ~fail
           THEN [call EXCEPT !.pc = "body", !.conn = TRUE, !.opened = TRUE,
                             !.open = @ + 1]
           ELSE IF call.op \in ConnInsideTry
           THEN [ExceptClause(call) EXCEPT !.pc = "finally"]
           ELSE [call EXCEPT !.pc = "returned", !.error = TRUE,
                             !.raised = "sqlite3.Error"]
    /\ UNCHANGED <<users, sessions, feeds, issued, stack, req>>

\* the statements of the try block, up to its return, or the except clause
\* for the error of a statement
StoreBody ==
    /\ call.pc = "body"
    /\ \E fail \in BOOLEAN :
         LET c == [call EXCEPT !.pc = "finally"]
             failed == ExceptClause(c)
             a == call.args
         IN
         CASE call.op = "Feed.save" ->
                LET f == Feed_save(a[1], feeds, call.seq, fail) IN
                /\ call' = IF fail THEN failed ELSE [c EXCEPT !.seq = f.seq]
                /\ feeds' = f.feeds
                /\ UNCHANGED <<users, sessions, issued>>
           [] call.op = "Feed.get_all" ->
                /\ call' = IF fail THEN failed
                           ELSE [c EXCEPT !.ret = <<"list", feeds>>]
                /\ UNCHANGED <<users, sessions, feeds, issued>>
           [] call.op = "Feed.delete" ->
                LET d == Feed_delete(a[1], feeds, fail) IN
                /\ call' = IF fail THEN failed
                           ELSE [c EXCEPT !.ret = <<"bool", d.deleted>>]
                /\ feeds' = d.feeds
                /\ UNCHANGED <<users, sessions, issued>>
           [] call.op = "User.create" ->
                LET u == User_create(a[1], a[2], users, fail) IN
                /\ call' = IF fail THEN failed ELSE [c EXCEPT !.ret = u.ret]
                /\ users' = u.users
                /\ UNCHANGED <<sessions, feeds, issued>>
           [] call.op = "User.authenticate" ->
                LET user == authenticate(a[1], a[2], users) IN
                /\ call' = IF fail THEN failed
                           ELSE IF user[1] = "raise"
                           THEN [c EXCEPT !.raised = user[2]]
                           ELSE [c EXCEPT !.ret = user]
                /\ UNCHANGED <<users, sessions, feeds, issued>>
           [] call.op = "User.get_by_id" ->
                /\ call' = IF fail THEN failed
                           ELSE [c EXCEPT !.ret = get_by_id(a[1], users)]
                /\ UNCHANGED <<users, sessions, feeds, issued>>
           [] call.op = "create_session" ->
                LET s == create_session(a[1], Len(issued), sessions, fail) IN
                /\ call' = IF fail THEN failed ELSE [c EXCEPT !.ret = s.ret]
                /\ sessions' = s.sessions
                /\ issued' = IF fail THEN issued
                             ELSE Append(issued,
                                         SessionRow(s.ret[2], a[1], s.ret[3]))
                /\ UNCHANGED <<users, feeds>>
           [] call.op = "get_session" ->
                /\ call' = IF fail THEN failed
                           ELSE [c EXCEPT !.ret = get_session(a[1], sessions, FALSE)]
                /\ UNCHANGED <<users, sessions, feeds, issued>>
           [] call.op = "delete_session" ->
                /\ call' = IF fail THEN failed ELSE c
                /\ sessions' = delete_session(a[1], sessions, fail)
                /\ UNCHANGED <<users, feeds, issued>>
           [] call.op = "get_or_fetch_session" ->
                /\ call' = IF fail THEN failed
                           ELSE [c EXCEPT !.ret = FetchSessionRow(a[2], sessions)]
                /\ UNCHANGED <<users, sessions, feeds, issued>>
    /\ UNCHANGED <<stack, req>>

\* variant: conn.close() is only reached when nothing was raised
Finally_SuccessPathOnly(c) ==
    IF c.conn /\ c.raised = ""
    THEN [c EXCEPT !.pc = "returned", !.conn = FALSE, !.open = @ - 1]
    ELSE [c EXCEPT !.pc = "returned"]

\* the finally clause: conn.close(), in auth.py and session_cache.py under
\* "if conn"
Finally(c) ==
    IF c.conn
    THEN [c EXCEPT !.pc = "returned", !.conn = FALSE, !.open = @ - 1]
    ELSE [c EXCEPT !.pc = "returned"]

StoreFinally ==
    /\ call.pc = "finally"
    /\ call' = Finally(call)
    /\ UNCHANGED <<users, sessions, feeds, issued, stack, req>>

\* the operation has returned or raised to its caller
StoreReturn ==
    /\ call.pc = "returned"
    /\ call' = IdleCall(call.open, call.seq)
    /\ UNCHANGED <<users, sessions, feeds, issued, stack, req>>

NextStore ==
    \/ StoreCall
    \/ StoreConnect
    \/ StoreBody
    \/ StoreFinally
    \/ StoreReturn

SpecStore == InitStore /\ [][NextStore]_vars

\* C23: every storage-facing operation has closed the connection it opened
\* when it returns, on the success path and on every error path: no
\* connection is open between operations, after any sequence of successes
\* and failures, and an operation holds at most one connection.
C23_ConnectionsClosed ==
    /\ call.pc \in {"idle", "returned"} => (call.open = 0 /\ ~call.conn)
    /\ call.open \in {0, 1}
    /\ call.open = 1 <=> call.conn

\* Feed.delete has raised the error of its DELETE, on a connection it had
\* opened, after a user and a session had been stored; nothing is open
C23_Witness ==
    /\ call.pc = "returned"
    /\ call.op = "Feed.delete"
    /\ call.opened
    /\ call.raised = "sqlite3.Error"
    /\ call.open = 0
    /\ Len(users) = 1
    /\ sessions # {}

----------------------------------------------------------------------------
(* Session cache *)

\* r takes a middleware step
MiddlewareStep(r) == Steps(r) /\ req[r].pc = "mw"

\* the step of r asks get_or_fetch_session: every AuthMiddleware step, and
\* the CSRFMiddleware step of a request whose method is not safe
Asks(r) == AtAuth(r) \/ (AtCSRF(r) /\ req[r].method \notin CSRF_SAFE_METHODS)

\* C24: within one request the session table is queried at most once,
\* whichever middleware runs first: the first get_or_fetch_session stores
\* its result, also None, in request.state, every later call of the request
\* returns the stored result without a query, and a request that arrives
\* starts without a stored result.
C24_OneQueryPerRequest ==
    /\ [](\A r \in Slots :
            /\ req[r].queries <= 1
            /\ req[r].queries = 1 => req[r].has_cache
            /\ ~req[r].has_cache => req[r].cache = None)
    /\ [][\A r \in Slots :
            /\ (MiddlewareStep(r) /\ Asks(r) /\ ~req[r].has_cache)
                 => /\ req'[r].has_cache
                    /\ req'[r].queries = IF Truthy(req[r].cookie) THEN 1 ELSE 0
            /\ (MiddlewareStep(r) /\ req[r].has_cache)
                 => /\ req'[r].has_cache
                    /\ req'[r].cache = req[r].cache
                    /\ req'[r].queries = req[r].queries
            /\ (Steps(r) /\ req[r].pc = "idle")
                 => /\ ~req'[r].has_cache
                    /\ req'[r].queries = 0]_vars

\* both middlewares have run on a POST whose cookie names no stored session:
\* one query was made and None is the stored result
C24_Witness ==
    \E r \in Slots :
        /\ req[r].pc = "route"
        /\ req[r].method = "POST"
        /\ Truthy(req[r].cookie)
        /\ req[r].auth_next = 1 /\ req[r].csrf_next = 1
        /\ req[r].has_cache /\ req[r].cache = None
        /\ req[r].queries = 1

----------------------------------------------------------------------------
(* Methods under CSRF protection *)

----------------------------------------------------------------------------
(* Session lookups *)

\* get_session, or a get_or_fetch_session that finds no stored result and a
\* cookie to look up, has returned
LookupReturned ==
    /\ call.pc = "returned"
    /\ \/ call.op = "get_session"
       \/ call.op = "get_or_fetch_session" /\ ~call.args[1]

\* the session id the lookup was made for
LookupId == IF call.op = "get_session" THEN call.args[1] ELSE call.args[2]

\* C26: a session lookup never raises and fails closed: get_session and
\* get_or_fetch_session return None when no row has the id and when the
\* connection or the query fails, and what they return otherwise is the
\* user_id and csrf_token of the stored row of that id; a storage error
\* never yields a session.
C26_LookupFailsClosed ==
    LookupReturned
    => /\ call.raised = ""
       /\ call.error => call.ret = None
       /\ FetchSessionRow(LookupId, sessions) = None => call.ret = None
       /\ ~call.error => call.ret = FetchSessionRow(LookupId, sessions)
       /\ call.ret # None
            => \E s \in sessions :
                   /\ s.id = LookupId
                   /\ call.ret = <<"row", s.user_id, s.csrf_token>>

\* the SELECT of get_or_fetch_session failed on an open connection for the
\* id of a stored session: None was returned
C26_Witness ==
    /\ LookupReturned
    /\ call.op = "get_or_fetch_session"
    /\ call.opened /\ call.error
    /\ FetchSessionRow(LookupId, sessions) # None
    /\ call.ret = None
    /\ call.raised = ""

----------------------------------------------------------------------------
(* Iteration count of a stored hash *)

\* the iteration counts the stored strings state
IterationInputs == {1, 600000}

\* the stored string whose hash is derived from password with the salt and
\* the iteration count the string states
StoredWith(password, salt, iterations) ==
    <<AlgorithmInfo(iterations), Sep>> \o salt
        \o <<Sep, pbkdf2_hmac(password, salt, iterations)>>

\* C27 as stated: a stored string whose hash was derived from the password
\* with its own stated iteration count and salt verifies as True, whatever
\* that iteration count is.
C27_AnyIterationCount ==
    call.pc = "returned"
    => \A iterations \in IterationInputs, salt \in SaltInputs :
           call.stored_hash = StoredWith(call.password, salt, iterations)
           => call.raised = "" /\ call.ret = TRUE

\* C27 (amended): verify_password takes the salt out of the stored string and
\* accepts one prefix only, pbkdf2:sha256:600000: a stored string whose hash
\* was derived from the password with its salt and 600000 iterations
\* verifies as True, and one that states another iteration count is answered
\* False without raising, also when its hash was derived with that count.
C27_FixedIterationCount ==
    call.pc = "returned"
    => \A iterations \in IterationInputs, salt \in SaltInputs :
           call.stored_hash = StoredWith(call.password, salt, iterations)
           => /\ call.raised = ""
              /\ call.ret = (iterations = 600000)

\* the string built with one iteration, for the password it was derived
\* from, has been answered False
C27_Witness ==
    /\ call.pc = "returned"
    /\ call.password = "pw1"
    /\ call.stored_hash = StoredWith("pw1", token_hex(1), 1)
    /\ call.ret = FALSE
    /\ call.raised = ""

----------------------------------------------------------------------------
(* One lookup for both middlewares *)

(* Two requests in flight at once: a middleware's dispatch is a coroutine *)
(* that gives way at await call_next and the route handlers are sync       *)
(* functions run in the thread pool, so the steps of one request (a        *)
(* middleware, the route handler) run between the steps of the other.      *)

ConcSlots == {1, 2}

InitConcurrent ==
    /\ users = <<>>
    /\ sessions = {}
    /\ feeds = {FeedRow(1, 88721)}
    /\ issued = <<>>
    /\ stack \in Stacks
    /\ req = [r \in ConcSlots |-> IdleReq]
    /\ call = NoCall

\* a registration, or a request that carries a session id and a token
ReceiveConcurrent(r) ==
    /\ req[r].pc = "idle"
    /\ \/ /\ Len(issued) < MaxSessions
          /\ \E username \in Usernames :
               req' = [req EXCEPT ![r] =
                         NewReq(<<"POST", "/register">>, None, None,
                                username, "pw1", 0)]
       \/ \E cookie \in AppCookieInputs, header \in AppHeaderInputs,
             ep \in {<<"GET", "/feeds/new">>, <<"POST", "/logout">>} :
             req' = [req EXCEPT ![r] = NewReq(ep, cookie, header, "", "", 0)]
    /\ UNCHANGED <<users, sessions, feeds, issued, stack, call>>

NextConcurrent ==
    \E r \in ConcSlots :
        \/ ReceiveConcurrent(r)
        \/ AuthStep(r)
        \/ CSRFStep(r)
        \/ new_feed(r)
        \/ post_register(r)
        \/ post_logout(r)
        \/ Finish(r)

SpecConcurrent == InitConcurrent /\ [][NextConcurrent]_vars

\* the session table as the stored result of the request's lookup shows it
CachedView(q) ==
    IF q.cache = None THEN {}
    ELSE {SessionRow(q.cookie, q.cache[2], q.cache[3])}

\* the session_id cookie of r names no stored session (any more)
RowGone(r) == FetchSessionRow(req[r].cookie, sessions) = None

\* C28: within one request AuthMiddleware and CSRFMiddleware act on the same
\* session data. The middleware that runs second decides on the result the
\* first one stored, whatever other requests have done to the session table
\* in between (a logout that deleted the row), so a request with a method
\* under the token check that reaches the router is authenticated exactly
\* when a session was found for it, and in that case the CSRF middleware has
\* compared its X-CSRFToken header with that session's token.
C28_SameSessionData ==
    /\ [](\A r \in ConcSlots :
            (req[r].pc = "route" /\ req[r].method \notin CSRF_SAFE_METHODS)
               => /\ (req[r].user # None) <=> (req[r].cache # None)
                  /\ (req[r].csrf_token # None) <=> (req[r].cache # None)
                  /\ req[r].cache # None
                       => /\ req[r].csrf_token = req[r].cache[3]
                          /\ req[r].header = req[r].cache[3])
    /\ [][\A r \in ConcSlots :
            (MiddlewareStep(r) /\ req[r].i = Len(stack) /\ req[r].has_cache)
               => \E fail_u \in BOOLEAN :
                    req'[r] = Dispatch(stack[req[r].i], req[r], stack,
                                       CachedView(req[r]), users,
                                       FALSE, fail_u)]_vars

\* a POST has passed the first middleware with a session found for it and
\* the matching token in its header, and the logout of another request has
\* deleted that session before the second middleware runs
C28_Witness ==
    \E r \in ConcSlots, s \in ConcSlots :
        /\ r # s
        /\ req[r].pc = "mw" /\ req[r].i = Len(stack)
        /\ req[r].method = "POST"
        /\ req[r].has_cache /\ req[r].cache # None
        /\ req[r].header = req[r].cache[3]
        /\ RowGone(r)
        /\ req[s].pc = "done" /\ req[s].path = "/logout"
        /\ req[s].cookie = req[r].cookie

----------------------------------------------------------------------------
(* What login and logout leave alone *)

\* C29: logging in never invalidates a session and logging out removes only
\* the session named by the request's cookie. No step of a POST /login
\* request removes or changes a session row, and the login that answers
\* with the redirect has added exactly one row, under an id no stored row
\* has; a step of a POST /logout request adds no row and removes at most
\* one, the row whose id is the session_id cookie, so every other session,
\* those of the same user included, is kept; neither request changes a user
\* or a feed.
C29_LoginLogoutFrame ==
    [][\A r \in Slots :
         /\ (Steps(r) /\ req[r].method = "POST" /\ req[r].path = "/login")
              => /\ UNCHANGED <<users, feeds>>
                 /\ sessions \subseteq sessions'
                 /\ Cardinality(sessions' \ sessions) <= 1
                 /\ \A s \in sessions' \ sessions :
                        \A t \in sessions : t.id # s.id
                 /\ (req[r].pc = "route" /\ req'[r].status = 303)
                      => Cardinality(sessions' \ sessions) = 1
         /\ (Steps(r) /\ req[r].method = "POST" /\ req[r].path = "/logout")
              => /\ UNCHANGED <<users, feeds>>
                 /\ sessions' \subseteq sessions
                 /\ Cardinality(sessions \ sessions') <= 1
                 /\ \A s \in sessions \ sessions' : s.id = req[r].cookie]_vars

\* a user has logged in a second time and then out of the first session:
\* the logout has removed the row of its cookie and the user's other
\* session is still stored
C29_Witness ==
    \E r \in Slots :
        /\ req[r].pc = "done" /\ req[r].path = "/logout"
        /\ req[r].status = 303
        /\ Len(issued) = 2
        /\ issued[1].user_id = issued[2].user_id
        /\ req[r].cookie = issued[1].id
        /\ issued[1] \notin sessions
        /\ issued[2] \in sessions

----------------------------------------------------------------------------
(* Registration whose auto-login fails *)

\* the registration of r has ended in the 500 page of a failed
\* create_session
AutoLoginFailed(q) ==
    /\ q.pc = "done" /\ q.path = "/register"
    /\ q.raised = "SessionCreationError"

\* C30: registration is not rolled back when its auto-login fails. When
\* User.create has succeeded and create_session fails, POST /register
\* answers 500 and the new user row is stored; from then on User.create with
\* the same form returns the duplicate outcome, so the repeated registration
\* is answered "Username already exists", and User.authenticate with the
\* chosen credentials returns the user, so POST /login with them is not
\* answered as invalid credentials.
C30_RegistrationNotRolledBack ==
    /\ [](\A r \in Slots :
            AutoLoginFailed(req[r])
               => /\ req[r].status = 500
                  /\ req[r].set_cookie = None
                  /\ \E k \in 1..Len(users) :
                        /\ users[k].username = req[r].username
                        /\ authenticate(req[r].username, req[r].password,
                                        users) = UserObj(k)
                  /\ User_create(req[r].username, req[r].password, users,
                                 FALSE).ret = None)
    /\ [][\A r \in Slots :
            /\ (RouteStep(r, "/register")
                   /\ req'[r].raised = "SessionCreationError")
                 => /\ Len(users') = Len(users) + 1
                    /\ users'[Len(users')].username = req[r].username
                    /\ sessions' = sessions
            /\ (RouteStep(r, "/register") /\ req'[r].raised = ""
                   /\ UsernameTaken(req[r].username, users))
                 => /\ req'[r].status = 200
                    /\ req'[r].detail = "Username already exists"
                    /\ users' = users
            /\ (RouteStep(r, "/login") /\ req'[r].raised # "sqlite3.Error"
                   /\ \E k \in 1..Len(users) :
                         authenticate(req[r].username, req[r].password,
                                      users) = UserObj(k))
                 => \/ /\ req'[r].status = 303
                       /\ sessions' # sessions
                    \/ req'[r].raised = "SessionCreationError"
            /\ UsersKept]_vars

\* the one stored user has no session from its registration (the auto-login
\* failed) and has now logged in with the chosen credentials: the first
\* session ever issued is the one this login has set the cookie for
C30_Witness ==
    \E r \in Slots :
        /\ req[r].pc = "done" /\ req[r].path = "/login"
        /\ req[r].status = 303
        /\ Len(users) = 1
        /\ users[1].username = req[r].username
        /\ Len(issued) = 1
        /\ req[r].set_cookie
              = CookieStr(<<"tuple", issued[1].id, issued[1].csrf_token>>)

====
